---- MODULE Spec2Model ----
(***************************************************************************)
(* The window chrome controller of the DAS desktop shell                   *)
(* (DAS Frontend/src-tauri/src/main.rs): the setup closure of main and the *)
(* three commands handle_search, toggle_theme and open_settings, acting on *)
(* the single main window owned by the host framework.                     *)
(*                                                                         *)
(* The host window is modelled by what the commands can observe of it: the *)
(* theme it reports, its background color, its overlay title bar and its   *)
(* devtools overlay.  Every host call returns a Result in the source, so   *)
(* every mutation takes its outcome (accepted or refused) as an input, and *)
(* the theme query reports Light, Dark, another variant (tauri::Theme is   *)
(* non_exhaustive, the source matches it with a catch-all arm) or an       *)
(* error.                                                                  *)
(*                                                                         *)
(* Spec     runs the operations one at a time, each handler as one action. *)
(* SpecConc runs toggle_theme in several tasks at once, one host call per  *)
(* step.                                                                   *)
(***************************************************************************)
EXTENDS Integers, Sequences, FiniteSets, TLC

VARIABLES
    theme,        \* what window.theme() reports: a Theme, or "Err"
    bg,           \* the window's background color; <<>> while none is set
    titlebar,     \* TRUE when the overlay title bar is on the main window
    devtools,     \* TRUE when the devtools overlay is open
    debugBuild,   \* cfg(debug_assertions) of the build
    started,      \* TRUE once the setup closure has run
    allOk,        \* history: no host call has failed so far
    log,          \* history: the last two completed operations
    pc,           \* SpecConc: where each toggle_theme task stands
    new_theme,    \* SpecConc: each task's local new_theme
    res           \* SpecConc: what each task's last invocation returned

vars == <<theme, bg, titlebar, devtools, debugBuild, started, allOk, log,
          pc, new_theme, res>>

window   == <<theme, bg, titlebar, devtools>>
taskVars == <<pc, new_theme, res>>

-----------------------------------------------------------------------------
(* Bounds *)

\* number of toggle_theme tasks that may be in flight at once (SpecConc)
NTasks == 2

Tasks == 1..NTasks

\* the queries handle_search is tried on
Queries == {"", "abc"}

-----------------------------------------------------------------------------
(* Values *)

Light == "Light"
Dark  == "Dark"
Other == "Other"     \* any variant of the non_exhaustive enum besides the two
Err   == "Err"       \* window.theme() returned Err

HostThemes == {Light, Dark, Other, Err}

White    == <<255, 255, 255, 255>>
DarkGrey == <<32, 32, 32, 255>>
NoColor  == <<>>

OkVal(s)  == [kind |-> "Ok", msg |-> s]
PanicVal  == [kind |-> "Panic", msg |-> ""]
NoResult  == [kind |-> "None", msg |-> ""]

\* window.theme().unwrap_or(tauri::Theme::Light)
UnwrapOrLight(t) == IF t = Err THEN Light ELSE t

\* {:?} of a tauri::Theme: the variant's name
DebugFmt(t) ==
    CASE t = Light -> "Light"
      [] t = Dark  -> "Dark"
      [] OTHER     -> "Other"

Colors == {NoColor, White, DarkGrey}

TypeOK ==
    /\ theme \in HostThemes
    /\ bg \in Colors
    /\ titlebar \in BOOLEAN /\ devtools \in BOOLEAN /\ debugBuild \in BOOLEAN
    /\ started \in BOOLEAN /\ allOk \in BOOLEAN
    /\ Len(log) <= 2
    /\ \A i \in 1..Len(log) :
          /\ log[i].op \in {"Initialize", "ToggleTheme", "HandleSearch", "OpenSettings"}
          /\ log[i].themeBefore \in HostThemes
          /\ log[i].bgBefore \in Colors /\ log[i].applied \in Colors
          /\ log[i].ret.kind \in {"Ok", "Panic"}
    /\ \A p \in Tasks :
          /\ pc[p] \in {"idle", "set_theme", "set_bg"}
          /\ new_theme[p] \in {Light, Dark}
          /\ res[p].kind \in {"None", "Ok", "Panic"}

-----------------------------------------------------------------------------
(* toggle_theme's pure steps *)

\* mutant: the catch-all arm picks Dark
NewThemeCatchAllDark(current_theme) ==
    CASE current_theme = Light -> Dark
      [] current_theme = Dark  -> Light
      [] OTHER                 -> Dark

\* mutant: the Dark arm stays Dark
NewThemeStickyDark(current_theme) ==
    CASE current_theme = Light -> Dark
      [] current_theme = Dark  -> Dark
      [] OTHER                 -> Light

NewTheme(current_theme) ==
    CASE current_theme = Light -> Dark
      [] current_theme = Dark  -> Light
      [] OTHER                 -> Light

\* mutant: the two colors are swapped
ToggleColorSwapped(t) ==
    CASE t = Light -> DarkGrey
      [] OTHER     -> White

ToggleColor(t) ==
    CASE t = Light -> White
      [] OTHER     -> DarkGrey

ToggleMsg(t) == "Theme toggled to " \o DebugFmt(t)

\* mutant: the catch-all arm picks white too
InitColorAlwaysWhite(t) ==
    CASE t = Light -> White
      [] OTHER     -> White

(* the setup closure's color *)
InitColor(t) ==
    CASE t = Light -> White
      [] OTHER     -> DarkGrey

SearchMsg(query) == "Searching for: " \o query

SettingsMsg == "Settings opened"

-----------------------------------------------------------------------------
(* History *)

Entry(op, calls, applied, ret) ==
    [op |-> op, themeBefore |-> theme, bgBefore |-> bg, tbBefore |-> titlebar,
     calls |-> calls, applied |-> applied, ret |-> ret]

Push(e) == IF Len(log) < 2 THEN Append(log, e) ELSE <<log[2], e>>

Call(ok) == IF ok THEN "ok" ELSE "err"

-----------------------------------------------------------------------------
(* Operations, one handler per action *)

\* mutant: the setup closure also pins the theme it read with set_theme
InitializePinsTheme(okTb, okBg) ==
    LET color == InitColor(UnwrapOrLight(theme)) IN
    /\ titlebar' = (titlebar \/ okTb)
    /\ bg' = IF okBg THEN color ELSE bg
    /\ devtools' = (devtools \/ debugBuild)
    /\ theme' = UnwrapOrLight(theme)
    /\ started' = TRUE
    /\ allOk' = (allOk /\ okTb /\ okBg /\ theme # Err)
    /\ log' = Push(Entry("Initialize",
                         [tb |-> Call(okTb), theme |-> "none", bg |-> Call(okBg)],
                         color, OkVal("")))
    /\ UNCHANGED <<debugBuild, taskVars>>

\* main's setup closure
Initialize(okTb, okBg) ==
    LET color == InitColor(UnwrapOrLight(theme)) IN
    /\ titlebar' = (titlebar \/ okTb)
    /\ bg' = IF okBg THEN color ELSE bg
    /\ devtools' = (devtools \/ debugBuild)
    /\ theme' = theme
    /\ started' = TRUE
    /\ allOk' = (allOk /\ okTb /\ okBg /\ theme # Err)
    /\ log' = Push(Entry("Initialize",
                         [tb |-> Call(okTb), theme |-> "none", bg |-> Call(okBg)],
                         color, OkVal("")))
    /\ UNCHANGED <<debugBuild, taskVars>>

\* toggle_theme, run to completion
ToggleTheme(okTheme, okBg) ==
    LET nt    == NewTheme(UnwrapOrLight(theme))
        color == ToggleColor(nt)
    IN
    /\ started
    /\ IF okTheme
         THEN /\ theme' = nt
              /\ bg' = IF okBg THEN color ELSE bg
              /\ log' = Push(Entry("ToggleTheme",
                                   [tb |-> "none", theme |-> "ok", bg |-> Call(okBg)],
                                   color, OkVal(ToggleMsg(nt))))
         ELSE \* set_theme(..).unwrap() panics; the rest of the handler is not run
              /\ UNCHANGED <<theme, bg>>
              /\ log' = Push(Entry("ToggleTheme",
                                   [tb |-> "none", theme |-> "err", bg |-> "none"],
                                   NoColor, PanicVal))
    /\ allOk' = (allOk /\ okTheme /\ (okTheme => okBg) /\ theme # Err)
    /\ UNCHANGED <<titlebar, devtools, debugBuild, started, taskVars>>

HandleSearch(query) ==
    /\ started
    /\ log' = Push(Entry("HandleSearch",
                         [tb |-> "none", theme |-> "none", bg |-> "none"],
                         NoColor, OkVal(SearchMsg(query))))
    /\ UNCHANGED <<window, debugBuild, started, allOk, taskVars>>

\* mutant: open_settings clears the window's background color
OpenSettingsClearsBackground ==
    /\ started
    /\ bg' = NoColor
    /\ log' = Push(Entry("OpenSettings",
                         [tb |-> "none", theme |-> "none", bg |-> "none"],
                         NoColor, OkVal(SettingsMsg)))
    /\ UNCHANGED <<theme, titlebar, devtools, debugBuild, started, allOk, taskVars>>

OpenSettings ==
    /\ started
    /\ log' = Push(Entry("OpenSettings",
                         [tb |-> "none", theme |-> "none", bg |-> "none"],
                         NoColor, OkVal(SettingsMsg)))
    /\ UNCHANGED <<window, debugBuild, started, allOk, taskVars>>

-----------------------------------------------------------------------------
(* The sequential specification *)

Init ==
    /\ theme \in HostThemes
    /\ bg = NoColor
    /\ titlebar = FALSE
    /\ devtools = FALSE
    /\ debugBuild \in BOOLEAN
    /\ started = FALSE
    /\ allOk = TRUE
    /\ log = <<>>
    /\ pc = [p \in Tasks |-> "idle"]
    /\ new_theme = [p \in Tasks |-> Light]
    /\ res = [p \in Tasks |-> NoResult]

Next ==
    \/ \E okTb \in BOOLEAN, okBg \in BOOLEAN : Initialize(okTb, okBg)
    \/ \E okTheme \in BOOLEAN, okBg \in BOOLEAN : ToggleTheme(okTheme, okBg)
    \/ \E query \in Queries : HandleSearch(query)
    \/ OpenSettings

Spec == Init /\ [][Next]_vars

-----------------------------------------------------------------------------
(* toggle_theme one host call at a time, for tasks that run concurrently *)

\* println, window.theme().unwrap_or(Light) and the match that picks new_theme
TReadTheme(p) ==
    /\ started
    /\ pc[p] = "idle"
    /\ new_theme' = [new_theme EXCEPT ![p] = NewTheme(UnwrapOrLight(theme))]
    /\ pc' = [pc EXCEPT ![p] = "set_theme"]
    /\ res' = [res EXCEPT ![p] = NoResult]
    /\ allOk' = (allOk /\ theme # Err)
    /\ UNCHANGED <<window, debugBuild, started, log>>

\* window.set_theme(Some(new_theme)).unwrap()
TSetTheme(p, ok) ==
    /\ pc[p] = "set_theme"
    /\ IF ok
         THEN /\ theme' = new_theme[p]
              /\ pc' = [pc EXCEPT ![p] = "set_bg"]
              /\ res' = res
         ELSE /\ theme' = theme
              /\ pc' = [pc EXCEPT ![p] = "idle"]
              /\ res' = [res EXCEPT ![p] = PanicVal]
    /\ allOk' = (allOk /\ ok)
    /\ UNCHANGED <<bg, titlebar, devtools, debugBuild, started, log, new_theme>>

\* the color match, let _ = window.set_background_color(Some(color)), and Ok(..)
TSetBackground(p, ok) ==
    /\ pc[p] = "set_bg"
    /\ bg' = IF ok THEN ToggleColor(new_theme[p]) ELSE bg
    /\ pc' = [pc EXCEPT ![p] = "idle"]
    /\ res' = [res EXCEPT ![p] = OkVal(ToggleMsg(new_theme[p]))]
    /\ allOk' = (allOk /\ ok)
    /\ UNCHANGED <<theme, titlebar, devtools, debugBuild, started, log, new_theme>>

\* the setup closure runs once, before any command is served
Setup(okTb, okBg) ==
    /\ ~started
    /\ Initialize(okTb, okBg)

NextConc ==
    \/ \E okTb \in BOOLEAN, okBg \in BOOLEAN : Setup(okTb, okBg)
    \/ \E p \in Tasks : TReadTheme(p)
    \/ \E p \in Tasks, ok \in BOOLEAN : TSetTheme(p, ok)
    \/ \E p \in Tasks, ok \in BOOLEAN : TSetBackground(p, ok)

SpecConc == Init /\ [][NextConc]_vars

-----------------------------------------------------------------------------
(* Vocabulary of the properties *)

\* the mapping table: Light -> (255,255,255,255), Dark -> (32,32,32,255)
MappingTable(t) ==
    CASE t = Light -> White
      [] t = Dark  -> DarkGrey

Last == log[Len(log)]

IsLast(op) == Len(log) > 0 /\ Last.op = op

\* no host mutation of the operation was refused
MutationsOk(e) == e.calls.tb # "err" /\ e.calls.theme # "err" /\ e.calls.bg # "err"

AllIdle == \A p \in Tasks : pc[p] = "idle"

-----------------------------------------------------------------------------
(* C1 *)

\* C1: in a sequential run whose host calls have all succeeded, whenever the
\* window's theme is Light or Dark after an operation, the window's background
\* color is the mapping-table value of that theme.
C1_BackgroundMatchesTheme ==
    (started /\ allOk /\ theme \in {Light, Dark}) => bg = MappingTable(theme)

\* Initialize from Light, then a toggle, every call accepted: the window is Dark
C1_Witness ==
    /\ Len(log) = 2
    /\ log[1].op = "Initialize" /\ log[1].themeBefore = Light
    /\ log[2].op = "ToggleTheme"
    /\ allOk
    /\ theme = Dark

-----------------------------------------------------------------------------
(* C2 *)

\* C2: once two or more concurrent toggle_theme invocations, interleaved at the
\* host calls and all of them accepted, have completed, the background color is
\* the mapping-table value of the window's theme.
C2_ConcurrentTogglesConsistent ==
    (/\ started
     /\ AllIdle
     /\ allOk
     /\ Cardinality({p \in Tasks : res[p].kind = "Ok"}) >= 2)
    => (theme \in {Light, Dark} /\ bg = MappingTable(theme))

-----------------------------------------------------------------------------
(* C3 *)

-----------------------------------------------------------------------------
(* C4 *)

\* C4: a toggle in which the host refuses set_theme or set_background_color
\* ends by returning an error value: no panic, no success description.
C4_RefusalReturnsError ==
    (IsLast("ToggleTheme") /\ ~MutationsOk(Last)) => Last.ret.kind = "Err"

-----------------------------------------------------------------------------
(* C5 *)

\* C5: a toggle in which the host refuses a mutation leaves the window's theme
\* and background color as they were before the toggle.
C5_RefusalKeepsPriorState ==
    (IsLast("ToggleTheme") /\ ~MutationsOk(Last)) =>
        (theme = Last.themeBefore /\ bg = Last.bgBefore)

-----------------------------------------------------------------------------
(* C6 *)

\* C6: Initialize applies (32,32,32,255) when the host reports Dark and
\* (255,255,255,255) for every other report (Light, unrecognized, unreadable).
C6_InitFallsBackToLight ==
    IsLast("Initialize") =>
        Last.applied = (IF Last.themeBefore = Dark THEN DarkGrey ELSE White)

-----------------------------------------------------------------------------
(* C7 *)

\* C7: two consecutive toggles with every host call accepted, starting from
\* Light or Dark, end in the starting theme with its mapping-table color.
C7_RoundTrip ==
    (/\ Len(log) = 2
     /\ log[1].op = "ToggleTheme" /\ MutationsOk(log[1])
     /\ log[2].op = "ToggleTheme" /\ MutationsOk(log[2])
     /\ log[1].themeBefore \in {Light, Dark})
    => (theme = log[1].themeBefore /\ bg = MappingTable(log[1].themeBefore))

\* Dark -> Light -> Dark
C7_Witness ==
    /\ Len(log) = 2
    /\ log[1].op = "ToggleTheme" /\ MutationsOk(log[1])
    /\ log[2].op = "ToggleTheme" /\ MutationsOk(log[2])
    /\ log[1].themeBefore = Dark /\ log[2].themeBefore = Light
    /\ theme = Dark

-----------------------------------------------------------------------------
(* C8 *)

-----------------------------------------------------------------------------
(* C9 *)

-----------------------------------------------------------------------------
(* C10 *)

\* C10: handle_search and open_settings succeed and leave the window's theme,
\* background color and title bar as they were, and open_settings returns the
\* same text whatever came before.
C10_StubsHaveNoEffect ==
    (IsLast("HandleSearch") \/ IsLast("OpenSettings")) =>
        /\ theme = Last.themeBefore
        /\ bg = Last.bgBefore
        /\ titlebar = Last.tbBefore
        /\ Last.ret.kind = "Ok"
        /\ Last.op = "OpenSettings" => Last.ret.msg = "Settings opened"

\* open_settings right after an accepted toggle
C10_Witness ==
    /\ Len(log) = 2
    /\ log[1].op = "ToggleTheme" /\ log[1].ret.kind = "Ok"
    /\ log[2].op = "OpenSettings"
    /\ log[2].ret = OkVal("Settings opened")

====
